---- MODULE Spec2Model ----
(***************************************************************************)
(* Model of the input-format inference engine of cargo-compete             *)
(* (src/web/input_template.rs).                                            *)
(*                                                                         *)
(* Text is modelled as a sequence of one-character strings, so that the    *)
(* string functions of the source (snake, sym_expr, the regular            *)
(* expressions of the detectors) are computed character by character.      *)
(***************************************************************************)
EXTENDS Integers, Sequences, FiniteSets, TLC

(***************************************************************************)
(* Characters and the std string functions the source uses.                *)
(***************************************************************************)
UPPER == <<"A","B","C","D","E","F","G","H","I","J","K","L","M",
           "N","O","P","Q","R","S","T","U","V","W","X","Y","Z">>
LOWER == <<"a","b","c","d","e","f","g","h","i","j","k","l","m",
           "n","o","p","q","r","s","t","u","v","w","x","y","z">>
DIGIT == <<"0","1","2","3","4","5","6","7","8","9">>

Range(f) == {f[k] : k \in DOMAIN f}

AsciiUpper == Range(UPPER)
AsciiLower == Range(LOWER)
AsciiDigit == Range(DIGIT)
AsciiAlpha == AsciiUpper \cup AsciiLower
AsciiAlnum == AsciiAlpha \cup AsciiDigit
White == {" ", "\t", "\n"}

\* char::to_ascii_lowercase
lower_char(c) ==
    IF c \in AsciiUpper THEN LOWER[CHOOSE k \in 1..26 : UPPER[k] = c] ELSE c

\* char::to_ascii_uppercase
upper_char(c) ==
    IF c \in AsciiLower THEN UPPER[CHOOSE k \in 1..26 : LOWER[k] = c] ELSE c

\* str::to_ascii_lowercase / to_ascii_uppercase
to_ascii_lowercase(s) == [k \in 1..Len(s) |-> lower_char(s[k])]
to_ascii_uppercase(s) == [k \in 1..Len(s) |-> upper_char(s[k])]

\* str::eq_ignore_ascii_case
eq_ignore_ascii_case(a, b) == to_ascii_lowercase(a) = to_ascii_lowercase(b)

\* str::contains(pattern)
contains(s, pat) ==
    \E k \in 1..(Len(s) + 1) :
        /\ k + Len(pat) - 1 <= Len(s)
        /\ SubSeq(s, k, k + Len(pat) - 1) = pat

\* s.chars().all(pred): pred given as the set of characters it accepts
all_in(s, set) == \A k \in 1..Len(s) : s[k] \in set

\* str::replace(from, to) for a one-character pattern `from`
RECURSIVE replace_char(_, _, _)
replace_char(s, from, to) ==
    IF Len(s) = 0 THEN <<>>
    ELSE (IF Head(s) = from THEN to ELSE <<Head(s)>>)
             \o replace_char(Tail(s), from, to)

\* str::replace(from, to) for a pattern `from` of any positive length
RECURSIVE replace_str(_, _, _)
replace_str(s, from, to) ==
    IF Len(s) = 0 THEN <<>>
    ELSE IF Len(from) <= Len(s) /\ SubSeq(s, 1, Len(from)) = from
         THEN to \o replace_str(SubSeq(s, Len(from) + 1, Len(s)), from, to)
         ELSE <<Head(s)>> \o replace_str(Tail(s), from, to)

\* str::trim_start_matches / trim_end_matches / trim_matches over a set of chars
RECURSIVE trim_start_set(_, _)
trim_start_set(s, set) ==
    IF Len(s) > 0 /\ Head(s) \in set THEN trim_start_set(Tail(s), set) ELSE s

RECURSIVE trim_end_set(_, _)
trim_end_set(s, set) ==
    IF Len(s) > 0 /\ s[Len(s)] \in set
    THEN trim_end_set(SubSeq(s, 1, Len(s) - 1), set) ELSE s

trim_matches(s, c) == trim_end_set(trim_start_set(s, {c}), {c})

\* str::trim
trim(s) == trim_end_set(trim_start_set(s, White), White)

\* str::split_whitespace
RECURSIVE split_ws(_, _)
split_ws(s, cur) ==
    IF Len(s) = 0 THEN (IF Len(cur) = 0 THEN <<>> ELSE <<cur>>)
    ELSE IF Head(s) \in White
         THEN (IF Len(cur) = 0 THEN <<>> ELSE <<cur>>) \o split_ws(Tail(s), <<>>)
         ELSE split_ws(Tail(s), Append(cur, Head(s)))

split_whitespace(s) == split_ws(s, <<>>)

\* Vec<Vec<_>>::iter().flatten()
RECURSIVE flatten(_)
flatten(ss) == IF Len(ss) = 0 THEN <<>> ELSE Head(ss) \o flatten(Tail(ss))

(***************************************************************************)
(* The regex crate, as far as the patterns of the source need it.  Every   *)
(* pattern of the detectors is anchored (^...$) and is a sequence of       *)
(* items, each a character class with a quantifier (one, ?, +, +?) and     *)
(* possibly a capture group around it.  re_run is a backtracking machine:  *)
(* it keeps a stack of threads, tries the preferred alternative first      *)
(* (greedy: one more character; lazy: go on with the pattern) and reports  *)
(* the first thread that reaches the end of both the pattern and the       *)
(* text, which is the leftmost-first match the regex crate reports.        *)
(***************************************************************************)
AnyChar == "<any>"
ReItem(cs, q, g) == [cs |-> cs, q |-> q, g |-> g]
ReSet(cs)      == << ReItem(cs, "1", 0) >>             \* a character class
ReLit(c)       == << ReItem({c}, "1", 0) >>            \* one literal character
ReOptLit(c)    == << ReItem({c}, "?", 0) >>            \* (?:c)?
RePlus(cs)     == << ReItem(cs, "+", 0) >>             \* [cs]+
ReGrpLit(n, c) == << ReItem({c}, "1", n) >>            \* (c), capture group n
ReGrpPlus(n, cs) == << ReItem(cs, "+", n) >>           \* ([cs]+), capture group n
ReGrpLazyAny(n) == << ReItem({AnyChar}, "+?", n) >>    \* (.+?), capture group n
ReStr(s)       == [k \in 1..Len(s) |-> ReItem({s[k]}, "1", 0)]   \* a literal text

\* whether character c is in the class cs; `.` is every character but \n
re_in(c, cs) == IF AnyChar \in cs THEN c # "\n" ELSE c \in cs

NoCap == <<"<none>">>

\* A thread: the item k it is at, the position p in the text, the number n of
\* characters the item has taken so far, where they start, and the captures.
RECURSIVE re_run(_, _, _)
re_run(re, s, stack) ==
    IF Len(stack) = 0 THEN [ok |-> FALSE]
    ELSE LET th   == Head(stack)
             rest == Tail(stack)
             atend == th.k > Len(re)
             it   == re[th.k]
             hit  == th.p <= Len(s) /\ re_in(s[th.p], it.cs)
             \* the thread after the item has taken one more character
             take == [th EXCEPT !.p = @ + 1, !.n = @ + 1]
             \* the thread after the item is left: its group is recorded
             leave ==
                 [k |-> th.k + 1, p |-> th.p, n |-> 0,
                  caps |-> IF it.g = 0 THEN th.caps
                           ELSE [th.caps EXCEPT
                                    ![it.g] = SubSeq(s, th.p - th.n, th.p - 1)]]
             next ==
                 CASE it.q = "1" ->
                        IF th.n = 1 THEN <<leave>>
                        ELSE IF hit THEN <<take>> ELSE <<>>
                   [] it.q = "?" ->
                        IF th.n = 1 THEN <<leave>>
                        ELSE IF hit THEN <<take, leave>> ELSE <<leave>>
                   [] it.q = "+" ->
                        IF th.n = 0 THEN (IF hit THEN <<take>> ELSE <<>>)
                        ELSE IF hit THEN <<take, leave>> ELSE <<leave>>
                   [] it.q = "+?" ->
                        IF th.n = 0 THEN (IF hit THEN <<take>> ELSE <<>>)
                        ELSE IF hit THEN <<leave, take>> ELSE <<leave>>
         IN  IF atend /\ th.p = Len(s) + 1 THEN [ok |-> TRUE, cap |-> th.caps]
             ELSE re_run(re, s, (IF atend THEN <<>> ELSE next) \o rest)

\* Regex::captures for an anchored pattern `re` with `ng` capture groups:
\* [ok |-> FALSE] for None, else the groups' texts.
captures(re, ng, s) ==
    re_run(re, s, << [k |-> 1, p |-> 1, n |-> 0, caps |-> [g \in 1..ng |-> NoCap]] >>)

ReAlpha == AsciiAlpha     \* [A-Za-z]
ReDigit == AsciiDigit     \* \d
ReSpace == White          \* \s

(***************************************************************************)
(* Token/Symbol normalizer.                                                *)
(***************************************************************************)
RECURSIVE snake_loop(_, _, _)
snake_loop(s, out, prev_is_underscore) ==
    IF Len(s) = 0 THEN out
    ELSE LET ch == Head(s)
             c  == IF ch \in AsciiAlnum THEN ch ELSE "_"
         IN  IF c = "_"
             THEN snake_loop(Tail(s),
                             IF ~prev_is_underscore THEN Append(out, "_") ELSE out,
                             TRUE)
             ELSE snake_loop(Tail(s), Append(out, lower_char(c)), FALSE)

snake(s) == trim_matches(snake_loop(s, <<>>, FALSE), "_")

\* str::split_once('-'): the position of the first '-', 0 when there is none
first_dash(t) ==
    IF \E k \in 1..Len(t) : t[k] = "-"
    THEN CHOOSE k \in 1..Len(t) : t[k] = "-" /\ \A m \in 1..(k - 1) : t[m] # "-"
    ELSE 0

\* ^(\d+)([A-Za-z]+)$
coef_re == ReGrpPlus(1, ReDigit) \o ReGrpPlus(2, ReAlpha)

\* lines 113-121, with the captures of the "5N form" pattern on t
sym_expr_coef(t, cap) ==
    IF cap.ok THEN cap.cap[1] \o <<"*">> \o snake(cap.cap[2])
    ELSE IF all_in(t, AsciiAlpha) THEN snake(t)
    ELSE t

\* lines 108-121, on the text t that lines 106-107 stripped; d is the position of
\* the first '-': a and b are the texts before and after it
sym_expr_split(t, d) ==
    IF d # 0 /\ all_in(SubSeq(t, d + 1, Len(t)), AsciiDigit)
    THEN snake(SubSeq(t, 1, d - 1)) \o <<"-">> \o SubSeq(t, d + 1, Len(t))
    ELSE sym_expr_coef(t, captures(coef_re, 2, t))

sym_expr_stripped(t) == sym_expr_split(t, first_dash(t))

sym_expr(s) ==
    sym_expr_stripped(replace_char(replace_char(trim(s), " ", <<>>), "\\", <<>>))

is_string_symbol(sym) ==
    to_ascii_uppercase(sym) \in { <<"S">>, <<"T">>, <<"U">>, <<"X">> }

(***************************************************************************)
(* Texts of the source's string literals.                                  *)
(***************************************************************************)
LDOTS  == <<"\\","l","d","o","t","s">>          \* "\\ldots"
CDOTS  == <<"\\","c","d","o","t","s">>          \* "\\cdots"
DOTS   == <<"\\","d","o","t","s">>              \* "\\dots"
VDOTS  == <<"\\","v","d","o","t","s">>          \* "\\vdots"
MATHRM == <<"\\","m","a","t","h","r","m">>      \* "\\mathrm"
TEXT   == <<"\\","t","e","x","t">>              \* "\\text"
CASE_  == <<"c","a","s","e">>                   \* "case"
QUERY  == <<"q","u","e","r","y">>               \* "query"

(***************************************************************************)
(* Line classifier.                                                        *)
(***************************************************************************)
is_case_placeholder_line(line) ==
    LET l == to_ascii_lowercase(line)
    IN  contains(l, CASE_) /\ (contains(l, <<"_">>) \/ contains(l, MATHRM))

is_query_placeholder_line(line) ==
    LET l == to_ascii_lowercase(line)
    IN  /\ contains(l, QUERY)
        /\ (contains(l, <<"_">>) \/ contains(l, MATHRM) \/ contains(l, TEXT))

(***************************************************************************)
(* Declarations.  The source keeps each declaration as the text            *)
(* "{name}: {ty}," and each type as text; the model keeps the parts: the   *)
(* name, the kind of the type and its size expression.  The unresolved     *)
(* marker "/* TODO: {ln} */" keeps its line.                               *)
(***************************************************************************)
TyScalar      == [k |-> "usize", size |-> <<>>]              \* usize
TyChars       == [k |-> "Chars", size |-> <<>>]              \* Chars
TyArray(e)    == [k |-> "[usize; _]", size |-> e]            \* [usize; e]
TyPairs(e)    == [k |-> "[(usize, usize); _]", size |-> e]   \* [(usize, usize); e]
TyGrid(e)     == [k |-> "[Chars; _]", size |-> e]            \* [Chars; e]

Decl(name, ty) == [todo |-> FALSE, name |-> name, ty |-> ty, ln |-> <<>>]
Todo(ln)       == [todo |-> TRUE, name |-> <<>>, ty |-> TyScalar, ln |-> ln]

None == [ok |-> FALSE]

\* lines[j] of the source, whose indices start at 0
At(lines, j) == lines[j + 1]

(***************************************************************************)
(* Pattern detectors.                                                      *)
(***************************************************************************)
\* the subscript (?:\{)?(\d+)(?:\})? with its digits in group n
ReDigitIdx(n) == ReOptLit("{") \o ReGrpPlus(n, ReDigit) \o ReOptLit("}")
\* the subscript (?:\{)?(.+?)(?:\})? with its text in group n
ReLastIdx(n)  == ReOptLit("{") \o ReGrpLazyAny(n) \o ReOptLit("}")

\* ^([A-Za-z]+)_(?:\{)?(\d+)(?:\})?\s+([A-Za-z]+)_(?:\{)?(\d+)(?:\})?\s+\\ldots\s+
\*  ([A-Za-z]+)_(?:\{)?(.+?)(?:\})?$
array_re ==
    ReGrpPlus(1, ReAlpha) \o ReLit("_") \o ReDigitIdx(2)
        \o RePlus(ReSpace) \o ReGrpPlus(3, ReAlpha) \o ReLit("_") \o ReDigitIdx(4)
        \o RePlus(ReSpace) \o ReStr(LDOTS)
        \o RePlus(ReSpace) \o ReGrpPlus(5, ReAlpha) \o ReLit("_") \o ReLastIdx(6)

\* ^([A-Za-z]+)-1$
mm_re == ReGrpPlus(1, ReAlpha) \o ReLit("-") \o ReLit("1")

\* lines 153-163
array_len_expr(first_idx, last_raw) ==
    LET c2 == captures(mm_re, 1, last_raw)
    IN  IF first_idx = <<"0">>
        THEN IF c2.ok THEN snake(c2.cap[1])
             ELSE <<"(">> \o sym_expr(last_raw) \o <<")", "+", "1">>
        ELSE sym_expr(last_raw)

\* array_from_captures that compares only the first two bases
array_from_captures_first_two(cap) ==
    IF ~cap.ok THEN None
    ELSE IF cap.cap[1] # cap.cap[3] THEN None
    ELSE [ok |-> TRUE, name |-> snake(cap.cap[1]),
          ty |-> TyArray(array_len_expr(
                    cap.cap[2],
                    trim_matches(trim_matches(trim(cap.cap[6]), "{"), "}")))]

\* lines 139-164, with the captures of line 139
array_from_captures(cap) ==
    IF ~cap.ok THEN None
    ELSE IF cap.cap[1] # cap.cap[3] \/ cap.cap[1] # cap.cap[5] THEN None
    ELSE [ok |-> TRUE, name |-> snake(cap.cap[1]),
          ty |-> TyArray(array_len_expr(
                    cap.cap[2],
                    trim_matches(trim_matches(trim(cap.cap[6]), "{"), "}")))]

parse_1d_array_line(line) ==
    array_from_captures(
        captures(array_re, 6, replace_str(replace_str(line, CDOTS, LDOTS), DOTS, LDOTS)))

PairWindow == 12
ScalarWindow == 8
GridWindow == 8

\* ^([A-Za-z]+)_\{?\d+\}?\s+([A-Za-z]+)_\{?\d+\}?$
pair_re ==
    ReGrpPlus(1, ReAlpha) \o ReLit("_") \o ReOptLit("{") \o RePlus(ReDigit)
        \o ReOptLit("}") \o RePlus(ReSpace)
        \o ReGrpPlus(2, ReAlpha) \o ReLit("_") \o ReOptLit("{") \o RePlus(ReDigit)
        \o ReOptLit("}")

\* ^{a}_(?:\{)?(.+?)(?:\})?\s+{b}_(?:\{)?(.+?)(?:\})?$
pair_last_re(a, b) ==
    ReStr(a) \o ReLit("_") \o ReLastIdx(1)
        \o RePlus(ReSpace) \o ReStr(b) \o ReLit("_") \o ReLastIdx(2)

\* the while loop of parse_pair_repeat: the final (count_expr, last_found)
RECURSIVE pair_scan(_, _, _, _, _)
pair_scan(lines, idx, last_re, j, acc) ==
    IF ~(j < Len(lines) /\ j < idx + PairWindow) THEN acc
    ELSE IF contains(At(lines, j), VDOTS) THEN pair_scan(lines, idx, last_re, j + 1, acc)
    ELSE LET c2 == captures(last_re, 2, At(lines, j))
         IN  IF c2.ok
             THEN pair_scan(lines, idx, last_re, j + 1,
                            [found |-> TRUE, expr |-> c2.cap[1], at |-> j])
             ELSE IF acc.found THEN acc
             ELSE pair_scan(lines, idx, last_re, j + 1, acc)

NotFound == [found |-> FALSE, expr |-> <<>>, at |-> 0]

\* the index expression after its braces are trimmed, normalised
count_expr_of(expr) == sym_expr(trim_matches(trim_matches(expr, "{"), "}"))

\* lines 200-204, with the result r of the while loop
pair_from_scan(a, b, idx, r) ==
    IF ~r.found THEN None
    ELSE [ok |-> TRUE, name |-> snake(a \o b), ty |-> TyPairs(count_expr_of(r.expr)),
          consumed |-> r.at + 1 - idx]

\* lines 171-204, with the captures of line 170
pair_from_captures(lines, idx, cap) ==
    IF ~cap.ok THEN None
    ELSE pair_from_scan(cap.cap[1], cap.cap[2], idx,
                        pair_scan(lines, idx, pair_last_re(cap.cap[1], cap.cap[2]),
                                  idx + 1, NotFound))

parse_pair_repeat(lines, idx) ==
    IF ~(idx < Len(lines)) THEN None
    ELSE pair_from_captures(lines, idx, captures(pair_re, 2, At(lines, idx)))

\* ^([A-Za-z]+)_(?:\{)?1(?:\})?$
first_row_re ==
    ReGrpPlus(1, ReAlpha) \o ReLit("_") \o ReOptLit("{") \o ReLit("1") \o ReOptLit("}")

\* ^{base}_(?:\{)?(.+?)(?:\})?$
row_last_re(base) == ReStr(base) \o ReLit("_") \o ReLastIdx(1)

\* the while loop of parse_vertical_scalars and of parse_grid_lines: (last, last_found)
RECURSIVE row_scan(_, _, _, _, _)
row_scan(lines, idx, last_re, window, j) ==
    IF ~(j < Len(lines) /\ j < idx + window) THEN NotFound
    ELSE IF contains(At(lines, j), VDOTS) THEN row_scan(lines, idx, last_re, window, j + 1)
    ELSE LET c2 == captures(last_re, 1, At(lines, j))
         IN  IF c2.ok THEN [found |-> TRUE, expr |-> c2.cap[1], at |-> j]
             ELSE row_scan(lines, idx, last_re, window, j + 1)

\* lines 231-234, with the result r of the while loop
vertical_from_scan(base, idx, r) ==
    IF ~r.found THEN None
    ELSE [ok |-> TRUE, name |-> snake(base), ty |-> TyArray(count_expr_of(r.expr)),
          consumed |-> r.at + 1 - idx]

\* lines 211-234, with the captures of line 210
vertical_from_captures(lines, idx, cap) ==
    IF ~cap.ok THEN None
    ELSE IF eq_ignore_ascii_case(cap.cap[1], <<"S">>) THEN None
    ELSE vertical_from_scan(cap.cap[1], idx,
                            row_scan(lines, idx, row_last_re(cap.cap[1]), ScalarWindow,
                                     idx + 1))

parse_vertical_scalars(lines, idx) ==
    IF ~(idx < Len(lines)) THEN None
    ELSE vertical_from_captures(lines, idx, captures(first_row_re, 1, At(lines, idx)))

\* grid_from_scan that never reuses the remembered height name
grid_from_scan_rederive(base, idx, known_h, r) ==
    IF ~r.found THEN None
    ELSE [ok |-> TRUE, name |-> snake(base), ty |-> TyGrid(count_expr_of(r.expr)),
          consumed |-> r.at + 1 - idx]

\* lines 265-270, with the result r of the while loop;
\* known_h: Option<&str> is <<>> for None and <<h>> for Some(h)
grid_from_scan(base, idx, known_h, r) ==
    IF ~r.found THEN None
    ELSE [ok |-> TRUE, name |-> snake(base),
          ty |-> TyGrid(IF Len(known_h) > 0 THEN known_h[1] ELSE count_expr_of(r.expr)),
          consumed |-> r.at + 1 - idx]

\* lines 245-270, with the captures of line 244; the closing line is ^S_(?:\{)?(.+?)(?:\})?$
grid_from_captures(lines, idx, known_h, cap) ==
    IF ~cap.ok THEN None
    ELSE IF ~eq_ignore_ascii_case(cap.cap[1], <<"S">>) THEN None
    ELSE grid_from_scan(cap.cap[1], idx, known_h,
                        row_scan(lines, idx, row_last_re(<<"S">>), GridWindow, idx + 1))

parse_grid_lines(lines, idx, known_h) ==
    IF ~(idx < Len(lines)) THEN None
    ELSE grid_from_captures(lines, idx, known_h,
                            captures(first_row_re, 1, At(lines, idx)))

(***************************************************************************)
(* Declaration synthesizer: guess_input_from_lines.  Its locals are the    *)
(* record st = [i, decls, seen, needs_chars, known_h]; each arm of the     *)
(* loop body is an operator from st to the st after the arm.               *)
(***************************************************************************)
t_is_testcases(lines) ==
    \E k \in 1..Len(lines) : contains(to_ascii_lowercase(lines[k]), CASE_)

\* push_decl without the test of `seen`
push_decl_unchecked(st, name, ty) ==
    [st EXCEPT !.seen = @ \cup {name}, !.decls = Append(@, Decl(name, ty))]

\* if seen.insert(name.clone()) { decls.push(format!("{name}: {ty},")); }
push_decl(st, name, ty) ==
    IF name \notin st.seen
    THEN [st EXCEPT !.seen = @ \cup {name}, !.decls = Append(@, Decl(name, ty))]
    ELSE st

no_ellipsis(ln) == ~contains(ln, LDOTS) /\ ~contains(ln, CDOTS) /\ ~contains(ln, DOTS)

\* the condition of the "scalar line" arm
is_scalar_line(ln) ==
    /\ contains(ln, <<" ">>)
    /\ no_ellipsis(ln)
    /\ ~contains(ln, <<"_">>)
    /\ ~contains(ln, <<"{">>)
    /\ ~contains(ln, <<"}">>)

\* the condition of the "single symbol line" arm
is_symbol_line(ln) == ~contains(ln, <<" ">>) /\ no_ellipsis(ln)

\* the condition of the arm that skips a line
is_skipped_line(ln) ==
    is_case_placeholder_line(ln) \/ is_query_placeholder_line(ln) \/ contains(ln, VDOTS)

\* the if-chain with the single-symbol arm moved before the multi-line detectors
Branch_symbol_first(lines, i, known_h) ==
    LET ln == At(lines, i)
    IN  IF is_skipped_line(ln) THEN "skip"
        ELSE IF is_symbol_line(ln) THEN "symbol"
        ELSE IF parse_grid_lines(lines, i, known_h).ok THEN "grid"
        ELSE IF parse_pair_repeat(lines, i).ok THEN "pair"
        ELSE IF parse_vertical_scalars(lines, i).ok THEN "vertical"
        ELSE IF parse_1d_array_line(ln).ok THEN "array"
        ELSE IF is_scalar_line(ln) THEN "scalars"
        ELSE "todo"

\* which arm of the loop body decides line i: the if-chain of the loop, in its order
Branch(lines, i, known_h) ==
    LET ln == At(lines, i)
    IN  IF is_skipped_line(ln) THEN "skip"
        ELSE IF parse_grid_lines(lines, i, known_h).ok THEN "grid"
        ELSE IF parse_pair_repeat(lines, i).ok THEN "pair"
        ELSE IF parse_vertical_scalars(lines, i).ok THEN "vertical"
        ELSE IF parse_1d_array_line(ln).ok THEN "array"
        ELSE IF is_scalar_line(ln) THEN "scalars"
        ELSE IF is_symbol_line(ln) THEN "symbol"
        ELSE "todo"

arm_skip(st) == [st EXCEPT !.i = @ + 1]

\* found that leaves the cursor where it is when the name is a duplicate
found_stalled(st, r, consumed) ==
    IF r.name \in st.seen THEN st
    ELSE [push_decl(st, r.name, r.ty) EXCEPT !.i = @ + consumed]

\* the declaration of a detection r is pushed and the cursor advanced by `consumed`
found(st, r, consumed) == [push_decl(st, r.name, r.ty) EXCEPT !.i = @ + consumed]
found_lines(st, r) == found(st, r, r.consumed)

arm_grid(lines, st) ==
    found_lines([st EXCEPT !.needs_chars = TRUE],
                parse_grid_lines(lines, st.i, st.known_h))

arm_pair(lines, st) == found_lines(st, parse_pair_repeat(lines, st.i))

arm_vertical(lines, st) == found_lines(st, parse_vertical_scalars(lines, st.i))

arm_array(lines, st) == found(st, parse_1d_array_line(At(lines, st.i)), 1)

\* for tok in ln.split_whitespace() { ... }
RECURSIVE scalar_tokens(_, _)
scalar_tokens(toks, st) ==
    IF Len(toks) = 0 THEN st
    ELSE LET name == snake(Head(toks))
             st1  == push_decl(st, name, TyScalar)
             st2  == IF name = <<"h">> THEN [st1 EXCEPT !.known_h = << <<"h">> >>]
                     ELSE st1
         IN  scalar_tokens(Tail(toks), st2)

arm_scalars(lines, st) ==
    [scalar_tokens(split_whitespace(At(lines, st.i)), st) EXCEPT !.i = @ + 1]

arm_symbol(lines, st) ==
    LET sym  == trim(At(lines, st.i))
        name == snake(sym)
        case_count == eq_ignore_ascii_case(sym, <<"T">>) /\ t_is_testcases(lines)
        chars == ~case_count /\ is_string_symbol(sym)
        ty   == IF case_count THEN TyScalar
                ELSE IF chars THEN TyChars
                ELSE TyScalar
        st1  == IF chars THEN [st EXCEPT !.needs_chars = TRUE] ELSE st
    IN  [push_decl(st1, name, ty) EXCEPT !.i = @ + 1]

arm_todo(lines, st) ==
    [st EXCEPT !.decls = Append(@, Todo(At(lines, st.i))), !.i = @ + 1]

\* the arm b of the loop body
run_arm(b, lines, st) ==
    CASE b = "skip"     -> arm_skip(st)
      [] b = "grid"     -> arm_grid(lines, st)
      [] b = "pair"     -> arm_pair(lines, st)
      [] b = "vertical" -> arm_vertical(lines, st)
      [] b = "array"    -> arm_array(lines, st)
      [] b = "scalars"  -> arm_scalars(lines, st)
      [] b = "symbol"   -> arm_symbol(lines, st)
      [] b = "todo"     -> arm_todo(lines, st)

\* one iteration of the while loop
guess_body(lines, st) == run_arm(Branch(lines, st.i, st.known_h), lines, st)

GuessStart ==
    [i |-> 0, decls |-> <<>>, seen |-> {}, needs_chars |-> FALSE, known_h |-> <<>>]

RECURSIVE guess_loop(_, _)
guess_loop(lines, st) ==
    IF st.i < Len(lines) THEN guess_loop(lines, guess_body(lines, st)) ELSE st

\* the returned (decls, needs_chars)
guess_result(st) == [decls |-> st.decls, needs_chars |-> st.needs_chars]

guess_input_from_lines(lines) == guess_result(guess_loop(lines, GuessStart))

(***************************************************************************)
(* Template renderer: render_section.  The generated text is the sequence  *)
(* `out` of lines; a line is kept as its text, a declaration line as its   *)
(* indentation and declaration, a dispatch branch as its tag and fields.   *)
(***************************************************************************)
NoDecl == Todo(<<>>)
Line(text) == [t |-> text, ind |-> 0, d |-> NoDecl, qt |-> 0, toks |-> <<>>]
\* format!("        {d}") and format!("            {d}")
DeclLine(ind, d) == [t |-> "{d}", ind |-> ind, d |-> d, qt |-> 0, toks |-> <<>>]
\* format!("            {qt} => {{}},") and
\* format!("            {qt} => {{ input! {{ {inner} }} }},")
BranchLine(qt, toks) ==
    [t |-> "{qt} =>", ind |-> 12, d |-> NoDecl, qt |-> qt, toks |-> toks]

UseChars == Line("use proconio::{input, marker::Chars};")
UseInput == Line("use proconio::input;")
ForT     == Line("    for _ in 0..t {")
ForQ     == Line("    for _ in 0..q {")
CatchAll == Line("            _ => unreachable!(),")

DeclLines(ind, ds) == [k \in 1..Len(ds) |-> DeclLine(ind, ds[k])]

has_cases(task) ==
    LET all_lines == flatten(task.input_blocks)
    IN  \E k \in 1..Len(all_lines) : is_case_placeholder_line(all_lines[k])

has_queries(task) ==
    LET all_lines == flatten(task.input_blocks)
    IN  \E k \in 1..Len(all_lines) : is_query_placeholder_line(all_lines[k])

\* lines 378-389: the import line and the entry point, after the first block is
\* synthesized; g is guess_input_from_lines(first)
render_begin(g) ==
    << IF g.needs_chars THEN UseChars ELSE UseInput, Line("fn main() {") >>

\* lines 392-397
render_flat(out, g) ==
    out \o << Line("    input! {") >> \o DeclLines(8, g.decls)
        \o << Line("    }"), Line("}") >>

\* lines 402-406
render_header(out, g) ==
    out \o << Line("    input! {") >> \o DeclLines(8, g.decls) \o << Line("    }") >>

\* lines 410-423; g is the header's (decls, needs_chars), c those of the second block
render_case_block(out, g, c) ==
    (IF c.needs_chars /\ ~g.needs_chars THEN [out EXCEPT ![1] = UseChars] ELSE out)
        \o << ForT, Line("        input! {") >> \o DeclLines(12, c.decls)
        \o << Line("        }"), Line("        /* TODO: solve testcase */"),
              Line("    }"), Line("}") >>

\* lines 409-431
render_cases(task, out, g) ==
    IF Len(task.input_blocks) >= 2
    THEN render_case_block(out, g, guess_input_from_lines(task.input_blocks[2]))
    ELSE out \o << ForT, Line("        input! { /* TODO: per-testcase fields */ }"),
                   Line("        /* TODO: solve testcase */"), Line("    }"), Line("}") >>

I32Max == 2147483647
I32Min == -I32Max - 1

DigitValue(c) == (CHOOSE k \in 1..10 : DIGIT[k] = c) - 1

\* the digits of str::parse::<i32> accumulated as the std does, with its overflow
\* checks: acc is [ok, v]
RECURSIVE parse_digits(_, _, _)
parse_digits(ds, neg, acc) ==
    IF Len(ds) = 0 \/ ~acc.ok THEN acc
    ELSE LET d == DigitValue(Head(ds))
             fits == IF neg THEN acc.v >= (I32Min + d + 9) \div 10
                     ELSE acc.v <= (I32Max - d) \div 10
         IN  parse_digits(Tail(ds), neg,
                          IF ~fits THEN [ok |-> FALSE, v |-> 0]
                          ELSE [ok |-> TRUE,
                                v |-> IF neg THEN acc.v * 10 - d ELSE acc.v * 10 + d])

\* toks[0].parse::<i32>().ok()
parse_i32(tok) ==
    LET signed == Len(tok) > 0 /\ tok[1] \in {"+", "-"}
        ds     == IF signed THEN Tail(tok) ELSE tok
    IN  IF Len(ds) = 0 \/ ~all_in(ds, AsciiDigit) THEN [ok |-> FALSE, v |-> 0]
        ELSE parse_digits(ds, signed /\ tok[1] = "-", [ok |-> TRUE, v |-> 0])

\* lines 437-451: the (tag, fields) pairs of the blocks after the first
RECURSIVE collect_qtypes(_)
collect_qtypes(blocks) ==
    IF Len(blocks) = 0 THEN <<>>
    ELSE LET b    == Head(blocks)
             toks == split_whitespace(b[1])
             qt   == parse_i32(toks[1])
             this == IF Len(b) # 1 THEN <<>>
                     ELSE IF Len(toks) = 0 THEN <<>>
                     ELSE IF ~qt.ok THEN <<>>
                     ELSE << [qt |-> qt.v, toks |-> Tail(toks)] >>
         IN  this \o collect_qtypes(Tail(blocks))

\* the sort_by_key of line 452 with everything it does left out
unsorted(qtypes) == qtypes

\* qtypes.sort_by_key(|x| x.0): a stable sort by the tag
RECURSIVE sort_by_key(_)
sort_by_key(qtypes) ==
    IF Len(qtypes) = 0 THEN <<>>
    ELSE LET sorted == sort_by_key(SubSeq(qtypes, 1, Len(qtypes) - 1))
             x      == qtypes[Len(qtypes)]
             n      == Cardinality({k \in 1..Len(sorted) : sorted[k].qt <= x.qt})
         IN  SubSeq(sorted, 1, n) \o <<x>> \o SubSeq(sorted, n + 1, Len(sorted))

\* lines 434-435 and 453-474, with the sorted qtypes
render_dispatch(out, qtypes) ==
    out \o << ForQ, Line("        input! { qt: usize }") >>
        \o (IF Len(qtypes) # 0
            THEN << Line("        match qt {") >>
                     \o [k \in 1..Len(qtypes) |->
                            BranchLine(qtypes[k].qt,
                                       [m \in 1..Len(qtypes[k].toks) |->
                                           snake(qtypes[k].toks[m])])]
                     \o << CatchAll, Line("        }") >>
            ELSE << Line("        /* TODO: per-query fields */") >>)
        \o << Line("        /* TODO: process query */"), Line("    }"), Line("}") >>

\* lines 434-474
render_queries(task, out) ==
    render_dispatch(out, sort_by_key(collect_qtypes(Tail(task.input_blocks))))

\* render_path with the query test ahead of the case test
render_path_queries_first(task) ==
    IF ~has_cases(task) /\ ~has_queries(task) THEN "Flat"
    ELSE IF has_queries(task) THEN "QueryLoop"
    ELSE "CaseLoop"

\* lines 391, 408 and 433: the path render_section takes once the first block is there
render_path(task) ==
    IF ~has_cases(task) /\ ~has_queries(task) THEN "Flat"
    ELSE IF has_cases(task) THEN "CaseLoop"
    ELSE "QueryLoop"

\* lines 383-475; g is guess_input_from_lines(first)
render_first(task, g) ==
    [ok |-> TRUE,
     out |-> CASE render_path(task) = "Flat" -> render_flat(render_begin(g), g)
               [] render_path(task) = "CaseLoop" ->
                      render_cases(task, render_header(render_begin(g), g), g)
               [] render_path(task) = "QueryLoop" ->
                      render_queries(task, render_header(render_begin(g), g))]

\* render_section: Err (ok = FALSE) when there is no first block, else the text
render_section(task) ==
    IF Len(task.input_blocks) = 0 THEN [ok |-> FALSE, out |-> <<>>]
    ELSE render_first(task, guess_input_from_lines(task.input_blocks[1]))

(***************************************************************************)
(* Task section splitter and orchestrator.  The document is kept as the    *)
(* sequence of its title spans, each with its letter, whether its segment  *)
(* holds the Input heading, and the blocks of its <pre> regions.           *)
(***************************************************************************)
\* parse_task_sections: a span without the Input heading is skipped
RECURSIVE parse_task_sections(_)
parse_task_sections(spans) ==
    IF Len(spans) = 0 THEN <<>>
    ELSE (IF ~Head(spans).has_input THEN <<>>
          ELSE << [letter |-> Head(spans).letter,
                   input_blocks |-> Head(spans).input_blocks] >>)
             \o parse_task_sections(Tail(spans))

\* task.letter.to_kebab_case(), for the one-letter names the splitter captures
to_kebab_case(letter) == to_ascii_lowercase(letter)

\* out.insert(src_path, content)
insert(map, key, content) ==
    [k \in DOMAIN map \cup {key} |-> IF k = key THEN content ELSE map[k]]

\* the results shell.warn(..) can have, which the `?` of line 499 tells apart
WarnResults == {"Ok", "Err"}

(***************************************************************************)
(* State.                                                                  *)
(***************************************************************************)
VARIABLES
    lines,          \* guess_input_from_lines: its argument
    i,              \*   the cursor
    decls,          \*   the declaration list
    seen,           \*   the names declared so far
    needs_chars,    \*   the string-capability flag
    known_h,        \*   the remembered height name
    pc,             \*   "loop" at the top of the while loop, the name of the arm
                    \*   the if-chain chose while inside it, "done" after the return
    task,           \* render_section: its argument
    hdr,            \*   (decls, needs_chars) of the first block
    out,            \*   the lines generated so far
    rpc,            \*   "Start", "Header", then "Done", or "Failed" for Err
    path,           \*   the terminal path taken: "Flat", "CaseLoop", "QueryLoop"
    file,           \* generate_template: task.html is "missing", "unreadable", "present"
    doc,            \*   the title spans of task.html
    sections,       \*   the parsed sections
    next_task,      \*   the index of the section the for loop is at
    out_map,        \*   the map `out` from source path to content
    warnings,       \*   the letters shell.warn was called for
    ret,            \*   the value returned
    gpc,            \*   "start", "loop", "done"
    fn_arg,         \* sym_expr called alone: its argument
    fn_ret,         \*   its result
    fpc             \*   "call", "returned"

guess_vars == <<lines, i, decls, seen, needs_chars, known_h, pc>>
render_vars == <<task, hdr, out, rpc, path>>
generate_vars == <<file, doc, sections, next_task, out_map, warnings, ret, gpc>>
fn_vars == <<fn_arg, fn_ret, fpc>>
vars == <<guess_vars, render_vars, generate_vars, fn_vars>>

\* the parts of the state a specification does not use
GuessIdle ==
    /\ lines = <<>> /\ i = 0 /\ decls = <<>> /\ seen = {} /\ needs_chars = FALSE
    /\ known_h = <<>> /\ pc = "idle"
RenderIdle ==
    /\ task = [letter |-> <<>>, input_blocks |-> <<>>]
    /\ hdr = [decls |-> <<>>, needs_chars |-> FALSE]
    /\ out = <<>> /\ rpc = "idle" /\ path = ""
GenerateIdle ==
    /\ file = "missing" /\ doc = <<>> /\ sections = <<>> /\ next_task = 0
    /\ out_map = <<>> /\ warnings = <<>> /\ ret = "" /\ gpc = "idle"
FnIdle == fn_arg = <<>> /\ fn_ret = <<>> /\ fpc = "idle"

(***************************************************************************)
(* The blocks the synthesizer is run on.                                   *)
(***************************************************************************)
SP == <<" ">>
Sub(base, idx) == base \o <<"_">> \o idx

GuessLines ==
    { <<"N">>,
      <<"S">>,
      <<"H">> \o SP \o <<"W">>,
      <<"N">> \o SP \o <<"M">>,
      Sub(<<"S">>, <<"1">>),
      Sub(<<"S">>, <<"N">>),
      Sub(<<"B">>, <<"1">>),
      Sub(<<"B">>, <<"{", "N", "-", "1", "}">>),
      Sub(<<"x">>, <<"1">>) \o SP \o Sub(<<"y">>, <<"1">>),
      Sub(<<"x">>, <<"M">>) \o SP \o Sub(<<"y">>, <<"M">>),
      Sub(<<"A">>, <<"1">>) \o SP \o Sub(<<"A">>, <<"2">>) \o SP \o LDOTS
          \o SP \o Sub(<<"A">>, <<"N">>),
      Sub(<<"A">>, <<"1">>) \o SP \o Sub(<<"B">>, <<"2">>) \o SP \o LDOTS
          \o SP \o Sub(<<"A">>, <<"N">>),
      VDOTS,
      MATHRM \o <<"{">> \o CASE_ \o <<"}", "_", "1">> }

MaxLines == 3

\* every sequence of at most n elements of S
SeqUpTo(S, n) == UNION {[1..k -> S] : k \in 0..n}

GuessInit ==
    /\ lines \in SeqUpTo(GuessLines, MaxLines)
    /\ i = GuessStart.i
    /\ decls = GuessStart.decls
    /\ seen = GuessStart.seen
    /\ needs_chars = GuessStart.needs_chars
    /\ known_h = GuessStart.known_h
    /\ pc = "loop"
    /\ RenderIdle /\ GenerateIdle /\ FnIdle

st_now == [i |-> i, decls |-> decls, seen |-> seen, needs_chars |-> needs_chars,
           known_h |-> known_h]

\* the if-chain of the loop body chooses the arm for line i
ChooseArm ==
    /\ pc = "loop"
    /\ i < Len(lines)
    /\ pc' = Branch(lines, i, known_h)
    /\ UNCHANGED <<lines, i, decls, seen, needs_chars, known_h>>
    /\ UNCHANGED <<render_vars, generate_vars, fn_vars>>

\* the chosen arm runs and the loop continues
Becomes(st) ==
    /\ i' = st.i
    /\ decls' = st.decls
    /\ seen' = st.seen
    /\ needs_chars' = st.needs_chars
    /\ known_h' = st.known_h
    /\ pc' = "loop"
    /\ UNCHANGED lines
    /\ UNCHANGED <<render_vars, generate_vars, fn_vars>>

SkipLine        == pc = "skip"     /\ Becomes(arm_skip(st_now))
GridLines       == pc = "grid"     /\ Becomes(arm_grid(lines, st_now))
PairRepeat      == pc = "pair"     /\ Becomes(arm_pair(lines, st_now))
VerticalScalars == pc = "vertical" /\ Becomes(arm_vertical(lines, st_now))
ArrayLine       == pc = "array"    /\ Becomes(arm_array(lines, st_now))
ScalarLine      == pc = "scalars"  /\ Becomes(arm_scalars(lines, st_now))
SymbolLine      == pc = "symbol"   /\ Becomes(arm_symbol(lines, st_now))
Unresolved      == pc = "todo"     /\ Becomes(arm_todo(lines, st_now))

GuessReturn ==
    /\ pc = "loop"
    /\ ~(i < Len(lines))
    /\ pc' = "done"
    /\ UNCHANGED <<lines, i, decls, seen, needs_chars, known_h>>
    /\ UNCHANGED <<render_vars, generate_vars, fn_vars>>

GuessNext ==
    \/ ChooseArm
    \/ SkipLine \/ GridLines \/ PairRepeat \/ VerticalScalars \/ ArrayLine
    \/ ScalarLine \/ SymbolLine \/ Unresolved
    \/ GuessReturn

SpecGuess == GuessInit /\ [][GuessNext]_vars

(***************************************************************************)
(* render_section, step by step.                                           *)
(***************************************************************************)
CaseLine  == MATHRM \o <<"{">> \o CASE_ \o <<"}", "_", "1">>     \* \mathrm{case}_1
QueryLine == MATHRM \o <<"{">> \o QUERY \o <<"}", "_", "1">>    \* \mathrm{query}_1

HeaderLines ==
    { <<"T">>, <<"S">>, <<"S">> \o SP \o <<"T">>, CaseLine, QueryLine }

RestBlocks ==
    { << <<"1">> \o SP \o <<"X">> >>,
      << <<"2">> >>,
      << <<"1", "0">> \o SP \o <<"X">> \o SP \o <<"Y">> >>,
      << CaseLine >>,
      << <<"S">> >>,
      << <<"N">>, <<"S">> >> }

MaxHeaderLines == 2
MaxRestBlocks == 2

\* the tasks rendered: none or one first block, and the blocks after it
RenderTasks ==
    { [letter |-> <<"A">>, input_blocks |-> <<>>] } \cup
    { [letter |-> <<"A">>, input_blocks |-> <<first>> \o rest] :
        first \in SeqUpTo(HeaderLines, MaxHeaderLines),
        rest \in SeqUpTo(RestBlocks, MaxRestBlocks) }

RenderInit ==
    /\ task \in RenderTasks
    /\ hdr = [decls |-> <<>>, needs_chars |-> FALSE]
    /\ out = <<>>
    /\ rpc = "Start"
    /\ path = ""
    /\ GuessIdle /\ GenerateIdle /\ FnIdle

\* lines 378-381: no first block, Err
RenderMissing ==
    /\ rpc = "Start"
    /\ Len(task.input_blocks) = 0
    /\ rpc' = "Failed"
    /\ UNCHANGED <<task, hdr, out, path>>
    /\ UNCHANGED <<guess_vars, generate_vars, fn_vars>>

\* lines 382-389: the first block is synthesized
RenderHeader ==
    /\ rpc = "Start"
    /\ Len(task.input_blocks) > 0
    /\ hdr' = guess_input_from_lines(task.input_blocks[1])
    /\ out' = render_begin(hdr')
    /\ rpc' = "Header"
    /\ UNCHANGED <<task, path>>
    /\ UNCHANGED <<guess_vars, generate_vars, fn_vars>>

Finish(p, text) ==
    /\ rpc = "Header"
    /\ render_path(task) = p
    /\ out' = text
    /\ path' = p
    /\ rpc' = "Done"
    /\ UNCHANGED <<task, hdr>>
    /\ UNCHANGED <<guess_vars, generate_vars, fn_vars>>

RenderFlat      == Finish("Flat", render_flat(out, hdr))
RenderCaseLoop  == Finish("CaseLoop", render_cases(task, render_header(out, hdr), hdr))
RenderQueryLoop == Finish("QueryLoop", render_queries(task, render_header(out, hdr)))

RenderNext ==
    \/ RenderMissing \/ RenderHeader \/ RenderFlat \/ RenderCaseLoop \/ RenderQueryLoop

SpecRender == RenderInit /\ [][RenderNext]_vars

(***************************************************************************)
(* generate_template, step by step.                                        *)
(***************************************************************************)
SpanKinds ==
    { [has_input |-> FALSE, input_blocks |-> <<>>],
      [has_input |-> TRUE,  input_blocks |-> <<>>],
      [has_input |-> TRUE,  input_blocks |-> << << <<"N">> >> >>],
      [has_input |-> TRUE,  input_blocks |-> << << <<"S">> >> >>] }

MaxSpans == 3

Letters == <<"A", "B", "C", "D", "E", "F", "G", "H">>

\* the documents: up to MaxSpans spans lettered A, B, C, ...
Documents ==
    UNION { { [k \in 1..n |-> [letter |-> << Letters[k] >>,
                               has_input |-> kinds[k].has_input,
                               input_blocks |-> kinds[k].input_blocks]] :
                kinds \in [1..n -> SpanKinds] } : n \in 0..MaxSpans }

GenerateInit ==
    /\ file \in {"missing", "unreadable", "present"}
    /\ doc \in Documents
    /\ sections = <<>>
    /\ next_task = 0
    /\ out_map = <<>>
    /\ warnings = <<>>
    /\ ret = ""
    /\ gpc = "start"
    /\ GuessIdle /\ RenderIdle /\ FnIdle

\* lines 483-485
GenNoFile ==
    /\ gpc = "start" /\ file = "missing"
    /\ ret' = "Ok(None)" /\ gpc' = "done"
    /\ UNCHANGED <<file, doc, sections, next_task, out_map, warnings>>
    /\ UNCHANGED <<guess_vars, render_vars, fn_vars>>

\* line 486: read_to_string fails
GenReadFails ==
    /\ gpc = "start" /\ file = "unreadable"
    /\ ret' = "Err" /\ gpc' = "done"
    /\ UNCHANGED <<file, doc, sections, next_task, out_map, warnings>>
    /\ UNCHANGED <<guess_vars, render_vars, fn_vars>>

\* lines 486-489
GenParse ==
    /\ gpc = "start" /\ file = "present"
    /\ sections' = parse_task_sections(doc)
    /\ next_task' = 0
    /\ out_map' = <<>>
    /\ gpc' = "loop"
    /\ UNCHANGED <<file, doc, warnings, ret>>
    /\ UNCHANGED <<guess_vars, render_vars, fn_vars>>

\* lines 494-497: render_section gives Ok(content)
GenRendered ==
    /\ gpc = "loop" /\ next_task < Len(sections)
    /\ render_section(At(sections, next_task)).ok
    /\ out_map' = insert(out_map, to_kebab_case(At(sections, next_task).letter),
                         render_section(At(sections, next_task)).out)
    /\ next_task' = next_task + 1
    /\ UNCHANGED <<file, doc, sections, warnings, ret, gpc>>
    /\ UNCHANGED <<guess_vars, render_vars, fn_vars>>

\* lines 498-500: render_section gives Err, shell.warn(..)? is called
GenWarn ==
    /\ gpc = "loop" /\ next_task < Len(sections)
    /\ ~render_section(At(sections, next_task)).ok
    /\ warnings' = Append(warnings, At(sections, next_task).letter)
    /\ \E w \in WarnResults :
          \/ /\ w = "Ok"
             /\ next_task' = next_task + 1
             /\ UNCHANGED <<ret, gpc>>
          \/ /\ w = "Err"
             /\ ret' = "Err" /\ gpc' = "done"
             /\ UNCHANGED next_task
    /\ UNCHANGED <<file, doc, sections, out_map>>
    /\ UNCHANGED <<guess_vars, render_vars, fn_vars>>

\* line 503
GenReturn ==
    /\ gpc = "loop" /\ ~(next_task < Len(sections))
    /\ ret' = "Ok(Some(out))" /\ gpc' = "done"
    /\ UNCHANGED <<file, doc, sections, next_task, out_map, warnings>>
    /\ UNCHANGED <<guess_vars, render_vars, fn_vars>>

GenerateNext ==
    \/ GenNoFile \/ GenReadFails \/ GenParse \/ GenRendered \/ GenWarn \/ GenReturn

SpecGenerate == GenerateInit /\ [][GenerateNext]_vars

(***************************************************************************)
(* Properties of the synthesizer.                                          *)
(***************************************************************************)
IsPrefix(a, b) == Len(a) <= Len(b) /\ SubSeq(b, 1, Len(a)) = a

\* the names of the declarations of ds (the unresolved markers have none)
NamesOf(ds) == {ds[k].name : k \in {m \in 1..Len(ds) : ~ds[m].todo}}

UniqueNames(ds) ==
    \A a, b \in 1..Len(ds) :
        (a # b /\ ~ds[a].todo /\ ~ds[b].todo) => ds[a].name # ds[b].name

\* C1: the declaration list never holds two declarations with the same name: every
\* step of the synthesizer keeps the declarations it had, in their order, appends
\* only names that were not declared yet, and so leaves all names distinct.
C1_FirstSeenWins ==
    [][ /\ IsPrefix(decls, decls')
        /\ UniqueNames(decls')
        /\ \A k \in (Len(decls) + 1)..Len(decls') :
              ~decls'[k].todo => decls'[k].name \notin NamesOf(decls) ]_vars

\* C1 witness: the block S, S_1, S_N is done; the grid detection of the name s,
\* already declared by the bare symbol S, added nothing.
C1_Witness ==
    /\ pc = "done"
    /\ Len(lines) = 3
    /\ lines[1] = <<"S">>
    /\ lines[2] = Sub(<<"S">>, <<"1">>)
    /\ lines[3] = Sub(<<"S">>, <<"N">>)
    /\ decls = << Decl(<<"s">>, TyChars) >>

\* the identifiers of an expression: its maximal runs of letters, digits and '_'
\* that do not start with a digit
IdentChars == AsciiAlnum \cup {"_"}
Idents(e) ==
    { SubSeq(e, a, b) : <<a, b>> \in
        { ab \in (1..Len(e)) \X (1..Len(e)) :
            /\ ab[1] <= ab[2]
            /\ \A k \in ab[1]..ab[2] : e[k] \in IdentChars
            /\ (ab[1] = 1 \/ e[ab[1] - 1] \notin IdentChars)
            /\ (ab[2] = Len(e) \/ e[ab[2] + 1] \notin IdentChars)
            /\ e[ab[1]] \notin AsciiDigit } }

IsSized(d) == ~d.todo /\ d.ty.k \in {"[usize; _]", "[(usize, usize); _]", "[Chars; _]"}

\* C2 as stated: every identifier of a size expression is declared by a declaration
\* that stands earlier in the same list.
C2_NoForwardReference ==
    \A k \in 1..Len(decls) :
        IsSized(decls[k]) =>
            Idents(decls[k].ty.size) \subseteq NamesOf(SubSeq(decls, 1, k - 1))

\* the text of a token after its first '_', without the braces around it
IndexOf(tok) ==
    LET u == IF \E k \in 1..Len(tok) : tok[k] = "_"
             THEN CHOOSE k \in 1..Len(tok) :
                      tok[k] = "_" /\ \A m \in 1..(k - 1) : tok[m] # "_"
             ELSE Len(tok)
    IN  trim_matches(trim_matches(SubSeq(tok, u + 1, Len(tok)), "{"), "}")

\* the size expression the closing line `ln` gives the detection of arm `arm`
SizeFromClosingLine(arm, ln) ==
    LET toks == split_whitespace(ln)
    IN  CASE arm = "grid"     -> sym_expr(IndexOf(toks[1]))
          [] arm = "vertical" -> sym_expr(IndexOf(toks[1]))
          [] arm = "pair"     -> sym_expr(IndexOf(toks[1]))
          [] arm = "array"    ->
                LET last == IndexOf(toks[Len(toks)])
                IN  IF IndexOf(toks[1]) # <<"0">> THEN sym_expr(last)
                    ELSE IF Len(last) >= 3 /\ SubSeq(last, Len(last) - 1, Len(last)) = <<"-", "1">>
                            /\ all_in(SubSeq(last, 1, Len(last) - 2), AsciiAlpha)
                         THEN snake(SubSeq(last, 1, Len(last) - 2))
                         ELSE <<"(">> \o sym_expr(last) \o <<")", "+", "1">>

SizedArms == {"grid", "pair", "vertical", "array"}

\* C2 as amended: a declaration appended by the grid, pair-repeat, vertical-scalar or
\* 1D-array detector has the remembered height name as its size when the grid
\* detector reuses it, and that name is then declared earlier in the list; otherwise
\* its size is the normalised trailing index of the closing line of the detection,
\* whether or not the identifiers in it are declared.
C2_SizeFromClosingLine ==
    [][ (pc \in SizedArms /\ Len(decls') > Len(decls)) =>
            LET d == decls'[Len(decls')]
            IN  /\ IsSized(d)
                /\ IF pc = "grid" /\ Len(known_h) > 0
                   THEN d.ty.size = known_h[1] /\ known_h[1] \in NamesOf(decls)
                   ELSE d.ty.size = SizeFromClosingLine(pc, At(lines, i' - 1)) ]_vars

\* C2 witness: a 1D-array line was declared with size n although no declaration of
\* the list is named n.
C2_Witness ==
    /\ pc = "loop"
    /\ Len(decls) > 0
    /\ decls[Len(decls)] = Decl(<<"a">>, TyArray(<<"n">>))
    /\ <<"n">> \notin NamesOf(decls)


\* whether detector `d` matches at line idx
DetectorMatches(d, ls, idx, kh) ==
    CASE d = "grid"     -> parse_grid_lines(ls, idx, kh).ok
      [] d = "pair"     -> parse_pair_repeat(ls, idx).ok
      [] d = "vertical" -> parse_vertical_scalars(ls, idx).ok
      [] d = "array"    -> parse_1d_array_line(At(ls, idx)).ok
      [] d = "scalars"  -> is_scalar_line(At(ls, idx))
      [] d = "symbol"   -> is_symbol_line(At(ls, idx))

DetectorOrder == <<"grid", "pair", "vertical", "array", "scalars", "symbol">>

\* the first detector of the order that matches, "todo" when none does
FirstMatch(ls, idx, kh) ==
    LET hits == {k \in 1..Len(DetectorOrder) : DetectorMatches(DetectorOrder[k], ls, idx, kh)}
    IN  IF hits = {} THEN "todo"
        ELSE DetectorOrder[CHOOSE k \in hits : \A m \in hits : k <= m]

\* what the arm of detector `d` appends to the declarations ds
Produced(d, ls, idx, kh, ds) ==
    LET one(r) == IF r.name \in NamesOf(ds) THEN <<>> ELSE << Decl(r.name, r.ty) >>
    IN  CASE d = "grid"     -> one(parse_grid_lines(ls, idx, kh))
          [] d = "pair"     -> one(parse_pair_repeat(ls, idx))
          [] d = "vertical" -> one(parse_vertical_scalars(ls, idx))
          [] d = "array"    -> one(parse_1d_array_line(At(ls, idx)))
          [] d = "todo"     -> << Todo(At(ls, idx)) >>

\* C3: at a line that is not skipped the arm chosen is that of the first detector, in
\* the order grid, pair-repeat, vertical-scalar, 1D-array, scalar line, single symbol,
\* that matches, and the unresolved marker only when none matches; the declaration
\* appended is the one that detector yields.
C3_DetectorPriority ==
    [][ /\ (pc = "loop" /\ pc' # "done") =>
              pc' = IF is_skipped_line(At(lines, i)) THEN "skip"
                    ELSE FirstMatch(lines, i, known_h)
        /\ (pc \in SizedArms \cup {"todo"}) =>
              decls' = decls \o Produced(pc, lines, i, known_h, decls)
        /\ (pc = "scalars") =>
              \A k \in (Len(decls) + 1)..Len(decls') : decls'[k].ty = TyScalar
        /\ (pc = "symbol") =>
              \A k \in (Len(decls) + 1)..Len(decls') :
                  /\ decls'[k].name = snake(trim(At(lines, i)))
                  /\ decls'[k].ty \in {TyScalar, TyChars}
        /\ (pc = "skip") => decls' = decls ]_vars

\* C3 witness: the vertical-scalar detector decided a line that the single-symbol
\* arm, lower in the order, matches too.
C3_Witness ==
    /\ pc = "vertical"
    /\ is_symbol_line(At(lines, i))

(***************************************************************************)
(* Properties of the renderer.                                             *)
(***************************************************************************)
Occurs(o, l) == Cardinality({k \in 1..Len(o) : o[k] = l})

\* the declaration lines of the header block, in order
HeaderDecls(o) == SelectSeq(o, LAMBDA l : l.t = "{d}" /\ l.ind = 8)

CaseOccurs(t) ==
    \E b \in 1..Len(t.input_blocks) : \E k \in 1..Len(t.input_blocks[b]) :
        is_case_placeholder_line(t.input_blocks[b][k])

QueryOccurs(t) ==
    \E b \in 1..Len(t.input_blocks) : \E k \in 1..Len(t.input_blocks[b]) :
        is_query_placeholder_line(t.input_blocks[b][k])

\* C4: a rendered task has a first block; the header holds the declarations
\* synthesized from the first block, once and in order; the text has the case loop
\* exactly when a case placeholder occurs in some block, the query loop exactly when
\* a query placeholder occurs and no case placeholder does, no loop exactly when
\* neither occurs, and never both loops.
C4_RenderPaths ==
    rpc = "Done" =>
        /\ Len(task.input_blocks) > 0
        /\ HeaderDecls(out) = DeclLines(8, guess_input_from_lines(task.input_blocks[1]).decls)
        /\ Occurs(out, ForT) = (IF CaseOccurs(task) THEN 1 ELSE 0)
        /\ Occurs(out, ForQ) = (IF QueryOccurs(task) /\ ~CaseOccurs(task) THEN 1 ELSE 0)
        /\ path = (IF CaseOccurs(task) THEN "CaseLoop"
                   ELSE IF QueryOccurs(task) THEN "QueryLoop" ELSE "Flat")

\* C4 witness: a task with both a case and a query placeholder was rendered through
\* the case loop.
C4_Witness ==
    /\ rpc = "Done"
    /\ CaseOccurs(task) /\ QueryOccurs(task)
    /\ path = "CaseLoop"
    /\ Occurs(out, ForT) = 1

\* the positions of the dispatch branches in the text
BranchAt(o) == {k \in 1..Len(o) : o[k].t = "{qt} =>"}

\* the tags of the single-line blocks after the first whose first token is an i32
SourceTags(t) ==
    LET bs == t.input_blocks
    IN  [ k \in {m \in 2..Len(bs) : /\ Len(bs[m]) = 1
                                    /\ Len(split_whitespace(bs[m][1])) > 0
                                    /\ parse_i32(split_whitespace(bs[m][1])[1]).ok}
            |-> parse_i32(split_whitespace(bs[k][1])[1]).v ]

C7_CaseCountIsScalar ==
    (/\ rpc = "Done" /\ path = "CaseLoop"
     /\ \E k \in 1..Len(task.input_blocks[1]) : task.input_blocks[1][k] = <<"T">>) =>
        /\ \E k \in 1..Len(out) : out[k] = DeclLine(8, Decl(<<"t">>, TyScalar))
        /\ \A k \in 1..Len(out) : out[k] # DeclLine(8, Decl(<<"t">>, TyChars))

\* the declaration lines of a string-row type, Chars or [Chars; ..]
CharsDeclAt(o) ==
    {k \in 1..Len(o) : /\ o[k].t = "{d}" /\ ~o[k].d.todo
                       /\ o[k].d.ty.k \in {"Chars", "[Chars; _]"}}

\* C8: the first line of a rendered text is the string-capable import exactly when
\* the text has a declaration of a string-row type, and the plain import otherwise.
C8_CharsImportIffDeclared ==
    rpc = "Done" =>
        out[1] = (IF CharsDeclAt(out) # {} THEN UseChars ELSE UseInput)

(***************************************************************************)
(* Properties of the orchestrator.                                         *)
(***************************************************************************)
\* C5: over a readable document the call returns Ok(Some(out)); a section with the
\* Input heading has its entry in out exactly when it has a first block, and is
\* warned about by its letter exactly when it has none, whatever shell.warn gives.
C5_BatchContinues ==
    (gpc = "done" /\ file = "present") =>
        /\ ret = "Ok(Some(out))"
        /\ \A k \in 1..Len(doc) : doc[k].has_input =>
              /\ (to_kebab_case(doc[k].letter) \in DOMAIN out_map)
                    <=> (Len(doc[k].input_blocks) > 0)
              /\ (doc[k].letter \in Range(warnings))
                    <=> (Len(doc[k].input_blocks) = 0)

(***************************************************************************)
(* sym_expr called alone, on every token over a small alphabet.            *)
(***************************************************************************)
SymChars == {"N", "M", "5", "1", "-", "+", "\\", " "}

MaxTokenLen == 5

SymExprInit ==
    /\ fn_arg \in SeqUpTo(SymChars, MaxTokenLen)
    /\ fn_ret = <<>>
    /\ fpc = "call"
    /\ GuessIdle /\ RenderIdle /\ GenerateIdle

CallSymExpr ==
    /\ fpc = "call"
    /\ fn_ret' = sym_expr(fn_arg)
    /\ fpc' = "returned"
    /\ UNCHANGED fn_arg
    /\ UNCHANGED <<guess_vars, render_vars, generate_vars>>

SymExprNext == CallSymExpr

SpecSymExpr == SymExprInit /\ [][SymExprNext]_vars

\* the token without its whitespace and backslashes
Stripped(s) == SelectSeq(s, LAMBDA c : c \notin White \cup {"\\"})

IsIdent(a) == Len(a) > 0 /\ all_in(a, AsciiAlpha)
IsDigits(b) == Len(b) > 0 /\ all_in(b, AsciiDigit)

\* the positions that split t as <ident>-<digits>, and as <digits><ident>
IdentDashDigits(t) ==
    {d \in 1..Len(t) : /\ t[d] = "-"
                       /\ IsIdent(SubSeq(t, 1, d - 1))
                       /\ IsDigits(SubSeq(t, d + 1, Len(t)))}

DigitsIdent(t) ==
    {d \in 1..Len(t) : IsDigits(SubSeq(t, 1, d)) /\ IsIdent(SubSeq(t, d + 1, Len(t)))}

\* what C9 says sym_expr returns on the stripped token t
SymExprForm(t) ==
    IF IdentDashDigits(t) # {}
    THEN LET d == CHOOSE d \in IdentDashDigits(t) : TRUE
         IN  snake(SubSeq(t, 1, d - 1)) \o <<"-">> \o SubSeq(t, d + 1, Len(t))
    ELSE IF DigitsIdent(t) # {}
    THEN LET d == CHOOSE d \in DigitsIdent(t) : TRUE
         IN  SubSeq(t, 1, d) \o <<"*">> \o snake(SubSeq(t, d + 1, Len(t)))
    ELSE IF all_in(t, AsciiAlpha) THEN snake(t)
    ELSE t

\* C9: sym_expr returns <normalized-ident>-<digits> for a stripped token of the form
\* <ident>-<digits>, <digits>*<normalized-ident> for one of the form <digits><ident>,
\* the normalized identifier for a purely alphabetic one, and the stripped token
\* unchanged for every other.
C9_SymExprForms ==
    fpc = "returned" => fn_ret = SymExprForm(Stripped(fn_arg))

(***************************************************************************)
(* The synthesizer on blocks of lines of the shape                         *)
(* base1_i base2_j <ellipsis> base3_k.                                     *)
(***************************************************************************)
ArrayBases == { <<"A">>, <<"B">>, <<"a">> }
ArrayEllipses == { LDOTS, CDOTS, DOTS }
\* the first and the last index: A_1 .. A_N and A_0 .. A_{N-1}
ArrayIndices ==
    { [first |-> <<"1">>, last |-> <<"N">>],
      [first |-> <<"0">>, last |-> <<"{", "N", "-", "1", "}">>] }

ArrayLines ==
    { Sub(b1, ix.first) \o SP \o Sub(b2, <<"2">>) \o SP \o e \o SP \o Sub(b3, ix.last) :
        b1 \in ArrayBases, b2 \in ArrayBases, b3 \in ArrayBases,
        e \in ArrayEllipses, ix \in ArrayIndices }

MaxArrayLines == 1

ArrayInit ==
    /\ lines \in SeqUpTo(ArrayLines, MaxArrayLines)
    /\ i = GuessStart.i
    /\ decls = GuessStart.decls
    /\ seen = GuessStart.seen
    /\ needs_chars = GuessStart.needs_chars
    /\ known_h = GuessStart.known_h
    /\ pc = "loop"
    /\ RenderIdle /\ GenerateIdle /\ FnIdle

ArrayNext == ChooseArm \/ ArrayLine \/ Unresolved \/ GuessReturn

SpecArray == ArrayInit /\ [][ArrayNext]_vars

\* the text of a token before its first '_'
BaseOf(tok) ==
    SubSeq(tok, 1, (CHOOSE k \in 1..Len(tok) :
                        tok[k] = "_" /\ \A m \in 1..(k - 1) : tok[m] # "_") - 1)

\* whether the three bases of a line base1_i base2_j <ellipsis> base3_k are one text
SameBases(ln) ==
    LET toks == split_whitespace(ln)
    IN  BaseOf(toks[1]) = BaseOf(toks[2]) /\ BaseOf(toks[1]) = BaseOf(toks[4])

IsArrayDecl(d) == ~d.todo /\ d.ty.k = "[usize; _]"

\* C10: the 1D-array detector matches a line only when its three bases are the same
\* text; a line in which the second or the third base differs from the first is
\* left to the unresolved marker, and every array declared comes from a line whose
\* bases are the same.
C10_MismatchedBasesRejected ==
    /\ pc = "array" => SameBases(At(lines, i))
    /\ pc = "todo" => ~SameBases(At(lines, i))
    /\ pc = "done" =>
          /\ \A k \in 1..Len(lines) :
                ~SameBases(lines[k]) => \E m \in 1..Len(decls) : decls[m] = Todo(lines[k])
          /\ \A m \in 1..Len(decls) : IsArrayDecl(decls[m]) =>
                \E k \in 1..Len(lines) :
                    /\ SameBases(lines[k])
                    /\ decls[m].name = snake(BaseOf(split_whitespace(lines[k])[1]))

\* C10 witness: the block of the line A_1 B_2 \ldots A_N ended with the unresolved
\* marker of that line and nothing else.
C10_Witness ==
    /\ pc = "done"
    /\ lines = << Sub(<<"A">>, <<"1">>) \o SP \o Sub(<<"B">>, <<"2">>) \o SP \o LDOTS
                      \o SP \o Sub(<<"A">>, <<"N">>) >>
    /\ decls = << Todo(lines[1]) >>

(***************************************************************************)
(* The synthesizer on blocks of two-token subscripted lines.               *)
(***************************************************************************)
PairLines ==
    { Sub(<<"x">>, <<"1">>) \o SP \o Sub(<<"y">>, <<"1">>),
      Sub(<<"x">>, <<"M">>) \o SP \o Sub(<<"y">>, <<"M">>),
      Sub(<<"A">>, <<"1">>) \o SP \o Sub(<<"A">>, <<"2">>),
      Sub(<<"A">>, <<"N">>) \o SP \o Sub(<<"A">>, <<"N">>),
      Sub(<<"A">>, <<"1">>) \o SP \o Sub(<<"B">>, <<"1">>),
      Sub(<<"A">>, <<"N">>) \o SP \o Sub(<<"B">>, <<"N">>),
      VDOTS }

MaxPairLines == 3

PairInit ==
    /\ lines \in SeqUpTo(PairLines, MaxPairLines)
    /\ i = GuessStart.i
    /\ decls = GuessStart.decls
    /\ seen = GuessStart.seen
    /\ needs_chars = GuessStart.needs_chars
    /\ known_h = GuessStart.known_h
    /\ pc = "loop"
    /\ RenderIdle /\ GenerateIdle /\ FnIdle

SpecPair ==
    PairInit /\ [][ChooseArm \/ SkipLine \/ PairRepeat \/ Unresolved \/ GuessReturn]_vars

\* whether the two tokens of a line base1_i base2_j have two different bases
DistinctBases(ln) ==
    LET toks == split_whitespace(ln)
    IN  Len(toks) = 2 /\ BaseOf(toks[1]) # BaseOf(toks[2])

IsPairsDecl(d) == ~d.todo /\ d.ty.k = "[(usize, usize); _]"

\* C11: the pair-repeat detector matches an opening line only when the bases of its
\* two tokens differ, and every array of pairs declared is named by two different
\* bases of an opening line.
C11_PairBasesDistinct ==
    /\ pc = "pair" => DistinctBases(At(lines, i))
    /\ \A m \in 1..Len(decls) : IsPairsDecl(decls[m]) =>
          \E k \in 1..Len(lines) :
              /\ DistinctBases(lines[k])
              /\ decls[m].name = snake(BaseOf(split_whitespace(lines[k])[1])
                                         \o BaseOf(split_whitespace(lines[k])[2]))

(***************************************************************************)
(* The synthesizer on blocks of string rows in either case.                *)
(***************************************************************************)
RowLines ==
    { Sub(<<"S">>, <<"1">>),
      Sub(<<"s">>, <<"1">>),
      Sub(<<"S">>, <<"N">>),
      Sub(<<"s">>, <<"N">>),
      VDOTS,
      <<"H">> \o SP \o <<"W">>,
      <<"N">> }

MaxRowLines == 3

RowInit ==
    /\ lines \in SeqUpTo(RowLines, MaxRowLines)
    /\ i = GuessStart.i
    /\ decls = GuessStart.decls
    /\ seen = GuessStart.seen
    /\ needs_chars = GuessStart.needs_chars
    /\ known_h = GuessStart.known_h
    /\ pc = "loop"
    /\ RenderIdle /\ GenerateIdle /\ FnIdle

SpecRow ==
    RowInit /\ [][ChooseArm \/ SkipLine \/ GridLines \/ ScalarLine \/ SymbolLine
                    \/ GuessReturn]_vars

\* a line of one subscripted token
IsRow(ln) == ~contains(ln, <<" ">>) /\ ~contains(ln, VDOTS) /\ contains(ln, <<"_">>)

\* whether line k (from 0) is S_1 or s_1 and a line after it, within the window, has
\* the same base and a trailing index
OpensGrid(ls, k) ==
    /\ ls[k + 1] \in {Sub(<<"S">>, <<"1">>), Sub(<<"s">>, <<"1">>)}
    /\ \E j \in (k + 1)..(k + GridWindow - 1) :
          /\ j < Len(ls)
          /\ IsRow(ls[j + 1])
          /\ BaseOf(ls[j + 1]) = BaseOf(ls[k + 1])
          /\ Len(ls[j + 1]) > Len(BaseOf(ls[j + 1])) + 1

IsGridDecl(d) == ~d.todo /\ d.name = <<"s">> /\ d.ty.k = "[Chars; _]"

\* the trailing indices of the rows of a block, lowercased as sym_expr leaves a letter
\* or a number
RowIndices(ls) ==
    { to_ascii_lowercase(SubSeq(ls[j], Len(BaseOf(ls[j])) + 2, Len(ls[j]))) :
        j \in {m \in 1..Len(ls) : IsRow(ls[m])} }

\* C12: at an opening line S_1 or s_1 that has, within the window, a closing line of
\* the same base with a trailing index, the grid detector is the one that matches;
\* and a block with such an opening line ends with s: [Chars; size] declared, sized
\* by the trailing index or by the remembered height name, and the
\* string-capability flag set.
C12_GridEitherCase ==
    /\ (pc \notin {"loop", "done"} /\ OpensGrid(lines, i)) => pc = "grid"
    /\ (pc = "done" /\ \E k \in 0..(Len(lines) - 1) : OpensGrid(lines, k)) =>
          /\ needs_chars
          /\ \E m \in 1..Len(decls) :
                /\ IsGridDecl(decls[m])
                /\ \/ decls[m].ty.size \in RowIndices(lines)
                   \/ /\ decls[m].ty.size = <<"h">>
                      /\ \E q \in 1..(m - 1) : decls[q] = Decl(<<"h">>, TyScalar)

(***************************************************************************)
(* Termination of the synthesizer loop.  The loop is sequential code:      *)
(* until it has returned, control moves on from the position it is at.     *)
(* Every step of GuessNext changes pc, and one is possible at every        *)
(* position but "done", so the fairness is stated on the change of pc.     *)
(***************************************************************************)
SpecGuessFair ==
    SpecGuess
        /\ WF_pc(/\ pc # "done"
                 /\ pc' \in {"loop", "skip", "grid", "pair", "vertical", "array",
                             "scalars", "symbol", "todo", "done"})

\* whether line j (from 0) is the closing line of the detection that arm `a` made at
\* the opening line k: it is no ellipsis line and starts with the opening base, or
\* with both opening bases for a pair; for a grid or a vertical run it is the first
\* such line after k
ClosesAt(a, ls, k, j) ==
    LET open  == split_whitespace(ls[k + 1])
        close == split_whitespace(ls[j + 1])
        starts(m) == /\ ~contains(ls[m + 1], VDOTS)
                     /\ IsPrefix(BaseOf(open[1]) \o <<"_">>, ls[m + 1])
    IN  /\ k < j /\ j < Len(ls)
        /\ starts(j)
        /\ a = "pair" => Len(close) = 2 /\ IsPrefix(BaseOf(open[2]) \o <<"_">>, close[2])
        /\ a # "pair" => \A m \in (k + 1)..(j - 1) : ~starts(m)

\* one step of the loop moves the cursor as C13 says
CursorStep ==
    /\ pc = "loop" => i' = i
    /\ pc \in {"skip", "array", "scalars", "symbol", "todo"} => i' = i + 1
    /\ pc \in {"grid", "pair", "vertical"} => ClosesAt(pc, lines, i, i' - 1)
    /\ pc # "loop" => i' > i /\ i' <= Len(lines)

\* C13: the loop terminates on every block; each iteration moves the cursor forward,
\* by 1 at a skipped line, a single-line detection or the unresolved marker and to
\* the line after the closing line at a multi-line detection, whether or not the
\* declaration was a duplicate and dropped; the cursor never passes the last line.
C13_LoopTerminates ==
    /\ [][CursorStep]_vars
    /\ [](i <= Len(lines))
    /\ <>(pc = "done" /\ i = Len(lines))

\* C13 witness: the grid S_1, S_N was declared, the line S after it gave a duplicate
\* name that was dropped, and the loop ended with the cursor after the last line.
C13_Witness ==
    /\ pc = "done"
    /\ lines = << Sub(<<"S">>, <<"1">>), Sub(<<"S">>, <<"N">>), <<"S">> >>
    /\ i = 3
    /\ decls = << Decl(<<"s">>, TyGrid(<<"n">>)) >>

====
